---- MODULE Spec2Model ----
(***************************************************************************)
(* Model of the politech-preprocessor pipeline core:                       *)
(*   Stage 1  aggregate_bg_to_precincts   (src/scripts/run_stage1.py)      *)
(*   Stage 2  build_assignments_for_plan, main (src/scripts/run_stage2.py) *)
(*   Stage 3  compute_dots_for_groups, ensure_presence, main               *)
(*                                         (src/scripts/run_stage3_dots.py)*)
(*                                                                         *)
(* Geometry is modelled on a plane cut into atomic cells: a polygon is the *)
(* set of cells it occupies, its area the sum of the cells' areas, and the *)
(* intersection of two polygons the intersection of their cell sets.       *)
(***************************************************************************)
EXTENDS Integers, Sequences, FiniteSets, TLC

\* ------------------------------------------------------------------ bounds
NSrc == 2      \* block groups (source polygons) in the Stage 1 layer
NTgt == 2      \* precincts (target polygons) in the Stage 1 layer
MaxVal == 1    \* largest attribute value on a block group
MaxRuns == 2   \* Stage 2 runs in one behaviour
NPrec == 2     \* precincts (member polygons) in the Stage 2 layer
NDist == 2     \* districts (container polygons) in one plan
NPoly == 1     \* block groups in the layer the dots are drawn for
MaxCount == 1  \* largest category count on a block group
NBg == 1       \* block groups in the table main of Stage 1 merges
MaxRoundCount == 5  \* largest count whose rounding is examined alone
MaxDrawn == 2  \* numbers drawn from the generator before a point is sampled
MaxUploads == 2  \* calls of upload_assignments on one database

\* ------------------------------------------------------------------- state
\* Stage 1: one call of aggregate_bg_to_precincts
VARIABLES
  bg,             \* block-group layer: row -> [geometry, value]
  bg_crs,         \* CRS of the block-group layer passed in
  precincts,      \* precinct layer: row -> [geometry]
  precincts_crs,  \* CRS of the precinct layer passed in
  stage1_pc,      \* "start" | "done" | "error"
  assignment,     \* result of maup.assign: bg row -> precinct row or NaN
  agg_value,      \* precincts[col] after the call: precinct row -> value or NaN
  out_crs,        \* CRS of the returned precinct layer
  comparison      \* the reconciliation table

stage1_vars == <<bg, bg_crs, precincts, precincts_crs, stage1_pc, assignment,
                 agg_value, out_crs, comparison>>

\* Stage 2: one call of build_assignments_for_plan
VARIABLES
  s2_precincts,   \* precinct layer of Stage 2: row -> [geometry, UNIQUE_ID]
  districts,      \* district layer of the plan: row -> [geometry, DISTRICT]
  plan_meta,      \* metadata of the plan being assigned
  assignments,    \* list of records returned by build_assignments_for_plan
  n_unassigned,   \* the unassigned count it returns
  build_pc        \* "start" | "done"

build_vars == <<s2_precincts, districts, plan_meta, assignments, n_unassigned,
                build_pc>>

\* Stage 2: main and the central stores
VARIABLES
  plans_json,        \* outputs/plans.json: list of plan metadata
  assignments_json,  \* outputs/assignments.json: list of assignment records
  run_state,         \* state_info["abbr"].upper() of the current run
  plan_year,         \* plan_files["year"] of the current run
  plan_files,        \* chamber keys of plan_files still to process
  all_plans,         \* plans processed by the current (or last) run
  all_assignments,   \* records built by the current (or last) run
  stage2_pc,         \* "idle" | "chambers"
  failed_chambers,   \* chambers the current run has printed a warning for
  runs               \* Stage 2 runs started so far

store_vars == <<plans_json, assignments_json, run_state, plan_year, plan_files,
                all_plans, all_assignments, stage2_pc, failed_chambers, runs>>

\* Stage 3: one run of main of run_stage3_dots.py, and a second run on the
\* same input
VARIABLES
  dot_bg,          \* block-group layer: row -> [geometry, counts, tot_pop]
  bg_columns,      \* the groups whose count column is in the layer
  dot_unit,        \* args.dot_unit
  seed,            \* args.seed
  dots_by_group,   \* group -> row -> number of dots
  counts_by_group, \* group -> row -> count
  feats,           \* the list of emitted dots
  emit_row,        \* row the emission loop is at
  py_draws,        \* numbers drawn so far from random.Random(seed)
  dots_file,       \* the combined dots GeoJSON
  dots_pc,         \* "start" | "rounded" | "present" | "emit" | "done"
  dot_runs,        \* runs started on this input
  prev_feats       \* the list the run before emitted

dots_vars == <<dot_bg, bg_columns, dot_unit, seed, dots_by_group, counts_by_group,
               feats, emit_row, py_draws, dots_file, dots_pc, dot_runs, prev_feats>>

\* Stage 1: a second call of aggregate_bg_to_precincts on the same input
VARIABLES
  stage1_runs,     \* calls started on this input
  prev_agg_value,  \* precincts[col] after the call before
  prev_comparison  \* the reconciliation table of the call before

rerun_vars == <<stage1_runs, prev_agg_value, prev_comparison>>

\* Stage 1: main of run_stage1.py from the merged block-group table on
VARIABLES
  main_bg,         \* merged block-group table: row -> [geometry, cols]
  bg_table,        \* its numeric columns after the totals are derived
  main_precincts,  \* precinct layer: row -> [geometry]
  precinct_table,  \* precinct columns as aggregate_bg_to_precincts returns them
  precinct_out,    \* precinct columns of the saved precinct GeoJSON
  main_pc          \* "merged" | "derived" | "aggregated" | "saved"

main_vars == <<main_bg, bg_table, main_precincts, precinct_table, precinct_out,
               main_pc>>

\* Stage 3: the stochastic rounding of one count
VARIABLES
  round_count,     \* the count of one (block group, group)
  round_unit,      \* dot_unit
  round_u,         \* the number the generator draws for it, as u / RngM
  round_dots,      \* base + add_one
  round_pc         \* "start" | "done"

round_vars == <<round_count, round_unit, round_u, round_dots, round_pc>>

\* Stage 3: one call of random_point_in_polygon
VARIABLES
  sample_poly,     \* the part the point is drawn in
  sample_seed,     \* the seed rng was built from
  sample_k,        \* numbers drawn from rng before the call
  sample_out,      \* [point, draws]: the point returned, numbers drawn after
  sample_pc        \* "start" | "done"

sample_vars == <<sample_poly, sample_seed, sample_k, sample_out, sample_pc>>

\* run_mongo.py: calls of upload_assignments on one database
VARIABLES
  mongo_assignments,  \* the collection 'assignments': documents in stored order
  uploaded,           \* the lists of records the calls so far have upserted
  mongo_pc            \* "ready"

mongo_vars == <<mongo_assignments, uploaded, mongo_pc>>

\* run_all_stages.py: main from the parsed arguments on
VARIABLES
  cli_args,        \* args: [acs_year, census_year, plan_year, dot_unit]
  stages_to_run,   \* the stages the run goes through, in order
  stage_i,         \* position in stages_to_run of the stage to run next
  stage_num,       \* the stage run last
  stage_args,      \* the options forwarded to it: <<option, value>> pairs
  stage_success,   \* what run_stage returned for it
  cli_pc           \* "loop" | "asked" | "end"

cli_vars == <<cli_args, stages_to_run, stage_i, stage_num, stage_args,
              stage_success, cli_pc>>

more_vars == <<sample_vars, mongo_vars, cli_vars>>

vars == <<stage1_vars, build_vars, store_vars, dots_vars, rerun_vars, main_vars,
          round_vars, more_vars>>

\* ---------------------------------------------------------------- geometry
Cells == {1, 2}

\* area of an atomic cell: cell 1 is 60% and cell 2 is 40% of their union
CellArea(c) == IF c = 1 THEN 3 ELSE 2

RECURSIVE Area(_)
Area(g) ==
  IF g = {} THEN 0
  ELSE LET c == CHOOSE x \in g : TRUE IN CellArea(c) + Area(g \ {c})

\* the missing value of pandas (NaN / NA): attribute values are >= 0 and
\* row indexes are >= 1, so -1 is free to stand for it
NaN == -1

SetMin(S) == CHOOSE x \in S : \A y \in S : x <= y

RECURSIVE SetSum(_, _)
\* sum of f[i] over the index set S
SetSum(f, S) ==
  IF S = {} THEN 0
  ELSE LET i == CHOOSE x \in S : TRUE IN f[i] + SetSum(f, S \ {i})

\* the value is kept as it is
FillNaKeep(v) == v

\* fillna(0), and round().astype("Int64") on a whole number
FillNa0(v) == IF v = NaN THEN 0 ELSE v

\* ------------------------------------------------- coordinate systems
WORK_CRS == "EPSG:5070"
OUTPUT_CRS == "EPSG:4326"
NoCRS == "none"
Raised == "raised"
CRSs == {WORK_CRS, OUTPUT_CRS, NoCRS}

\* GeoDataFrame.to_crs(target): the layer's CRS afterwards; a layer without
\* a CRS cannot be transformed and to_crs raises
ToCrsKeep(crs, target) == IF crs = NoCRS THEN Raised ELSE crs
ToCrs(crs, target) == IF crs = NoCRS THEN Raised ELSE target

\* ------------------------------------------------------------ maup.assign
Overlap(s, t) == Area(s.geometry \cap t.geometry)

\* a source is given only to a target that covers it entirely
MaupAssignCoveringOnly(sources, targets) ==
  [s \in DOMAIN sources |->
     LET cands == {t \in DOMAIN targets :
                     /\ sources[s].geometry # {}
                     /\ sources[s].geometry \subseteq targets[t].geometry}
     IN IF cands = {} THEN NaN ELSE SetMin(cands)]

\* a source that shares area with no target is given to the first target
MaupAssignNoneToFirst(sources, targets) ==
  [s \in DOMAIN sources |->
     LET cands == {t \in DOMAIN targets : Overlap(sources[s], targets[t]) > 0}
         best == {t \in cands : \A u \in cands :
                    Overlap(sources[s], targets[u]) <= Overlap(sources[s], targets[t])}
     IN IF cands = {} THEN SetMin(DOMAIN targets) ELSE SetMin(best)]

\* a source goes to the first target it shares any area with
MaupAssignFirstOverlap(sources, targets) ==
  [s \in DOMAIN sources |->
     LET cands == {t \in DOMAIN targets : Overlap(sources[s], targets[t]) > 0}
     IN IF cands = {} THEN NaN ELSE SetMin(cands)]

\* ties between targets of equal shared area are broken differently in the
\* first call and in the second
MaupAssignTieByRun(sources, targets) ==
  [s \in DOMAIN sources |->
     LET cands == {t \in DOMAIN targets : Overlap(sources[s], targets[t]) > 0}
         best == {t \in cands : \A u \in cands :
                    Overlap(sources[s], targets[u]) <= Overlap(sources[s], targets[t])}
     IN IF cands = {} THEN NaN
        ELSE IF stage1_runs = 1 THEN SetMin(best)
        ELSE CHOOSE t \in best : \A u \in best : u <= t]

\* maup.assign(sources, targets): each source goes to the one target that
\* covers it or, failing that, that shares the largest area with it (the
\* first such target in index order); NaN when it shares area with none
MaupAssign(sources, targets) ==
  [s \in DOMAIN sources |->
     LET cands == {t \in DOMAIN targets : Overlap(sources[s], targets[t]) > 0}
         best == {t \in cands : \A u \in cands :
                    Overlap(sources[s], targets[u]) <= Overlap(sources[s], targets[t])}
     IN IF cands = {} THEN NaN ELSE SetMin(best)]

\* ------------------------------------------------------------ Stage 1 state
BgLayers == [1..NSrc -> [geometry : SUBSET Cells, value : 0..MaxVal]]
\* a precinct row always has a polygon of positive area
PrecinctLayers == [1..NTgt -> [geometry : (SUBSET Cells) \ {{}}]]

NoTable == [Source_BG |-> 0, Target_Precinct |-> 0, Difference |-> 0]

Stage1Init ==
  /\ bg \in BgLayers
  /\ bg_crs \in CRSs
  /\ precincts \in PrecinctLayers
  /\ precincts_crs = WORK_CRS    \* main reads the precincts with to_crs(WORK_CRS)
  /\ stage1_pc = "start"
  /\ assignment = [s \in 1..NSrc |-> NaN]
  /\ agg_value = [t \in 1..NTgt |-> NaN]
  /\ out_crs = NoCRS
  /\ comparison = NoTable

\* bg[columns].groupby(assignment).sum(), then precincts[col] = agg.get(col, 0):
\* rows whose key is NaN are dropped by groupby, and a precinct that is no
\* group key aligns to NaN
GroupBySum(layer, asg, t) ==
  LET members == {s \in DOMAIN layer : asg[s] = t}
  IN IF members = {} THEN NaN
     ELSE SetSum([s \in DOMAIN layer |-> layer[s].value], members)

\* Series.sum(): NaN is skipped
SumSkipNaN(f) == SetSum(f, {i \in DOMAIN f : f[i] # NaN})

AggregateBgToPrecincts ==
  /\ stage1_pc = "start"
  /\ LET b == ToCrs(bg_crs, WORK_CRS)
         p == ToCrs(precincts_crs, WORK_CRS)
     IN /\ b # Raised /\ p # Raised
        /\ b = p                       \* maup.assign requires one CRS
        /\ LET asg == MaupAssign(bg, precincts)
               agg == [t \in DOMAIN precincts |-> GroupBySum(bg, asg, t)]
               source_totals == SetSum([s \in DOMAIN bg |-> bg[s].value], DOMAIN bg)
               target_totals == SumSkipNaN(agg)
           IN /\ assignment' = asg
              /\ agg_value' = agg
              /\ out_crs' = p
              /\ comparison' = [Source_BG |-> source_totals,
                                Target_Precinct |-> target_totals,
                                Difference |-> target_totals - source_totals]
  /\ stage1_pc' = "done"
  /\ UNCHANGED <<bg, bg_crs, precincts, precincts_crs, build_vars, store_vars, dots_vars,
                 rerun_vars, main_vars,
                 round_vars, more_vars>>

\* to_crs raises on a layer without CRS, maup.assign on two different CRSs
AggregateRaises ==
  /\ stage1_pc = "start"
  /\ LET b == ToCrs(bg_crs, WORK_CRS)
         p == ToCrs(precincts_crs, WORK_CRS)
     IN b = Raised \/ p = Raised \/ b # p
  /\ stage1_pc' = "error"
  /\ UNCHANGED <<bg, bg_crs, precincts, precincts_crs, assignment, agg_value,
                 out_crs, comparison, build_vars, store_vars, dots_vars,
                 rerun_vars, main_vars,
                 round_vars, more_vars>>

Stage1Next == AggregateBgToPrecincts \/ AggregateRaises

\* ------------------------------------------- Stage 2: assignment of one plan
\* DISTRICT codes of a plan layer: numeric codes, a numeric code below zero,
\* the reserved non-numeric code, and a missing value
NoCode == "nan"
DistrictCodes == {"1", "2", "-1", "ZZZ", NoCode}

\* the codes int() accepts; on any other it raises ValueError
ParsesAsInt(code) == code \in {"1", "2", "-1"}

\* int(dist_code) for a code it accepts
IntOf(code) ==
  CASE code = "1" -> 1
    [] code = "2" -> 2
    [] code = "-1" -> 0 - 1

\* the except branch stores 0 for a code that is no number
DistrictIdZero(code) == IF ParsesAsInt(code) THEN IntOf(code) ELSE 0

\* try: district_id = int(dist_code); except (ValueError, TypeError): -1
DistrictId(code) == IF ParsesAsInt(code) THEN IntOf(code) ELSE 0 - 1

\* no row is skipped
IsUnassignedNever(code) == FALSE

\* dist_code is None or (isinstance(dist_code, float) and pd.isna(dist_code))
IsUnassigned(code) == code = NoCode

\* district_codes = assignment.map(districts["DISTRICT"]): the code of the
\* district a precinct row is assigned to, missing when it is assigned to none
DistrictCodeOf(prec, dist, row) ==
  LET a == MaupAssign(prec, dist)[row]
  IN IF a = NaN THEN NoCode ELSE dist[a].DISTRICT

RECURSIVE AssignmentRows(_, _, _, _)
\* the loop over precincts.iterrows() from row i on
AssignmentRows(prec, dist, meta, i) ==
  IF i > Len(prec) THEN <<>>
  ELSE LET dist_code == DistrictCodeOf(prec, dist, i)
           rest == AssignmentRows(prec, dist, meta, i + 1)
       IN IF IsUnassigned(dist_code) THEN rest
          ELSE <<[state |-> meta.state,
                  plan_id |-> meta.plan_id,
                  precinct_id |-> prec[i].UNIQUE_ID,
                  district_id |-> DistrictId(dist_code)]>> \o rest

\* only the precincts that share area with no district are counted
BuildAssignmentsCountingOutside(prec, dist, meta) ==
  [assignments |-> AssignmentRows(prec, dist, meta, 1),
   n_unassigned |-> Cardinality({r \in DOMAIN prec : MaupAssign(prec, dist)[r] = NaN})]

\* build_assignments_for_plan(precincts, districts, plan_meta)
BuildAssignmentsForPlan(prec, dist, meta) ==
  [assignments |-> AssignmentRows(prec, dist, meta, 1),
   n_unassigned |-> Cardinality({r \in DOMAIN prec :
                                   DistrictCodeOf(prec, dist, r) = NoCode})]

\* plan_id = f"{abbr}_{chamber_code}_ENACTED_{plan_year}"
PlanId(state, chamber_code, year) == <<state, chamber_code, "ENACTED", year>>

PlanMeta(state, chamber_code, year) ==
  [state |-> state, plan_id |-> PlanId(state, chamber_code, year),
   chamber |-> chamber_code, year |-> year]

\* the precinct layer Stage 1 wrote: polygons of positive area, UNIQUE_ID
\* distinct per row
Stage2PrecinctLayers ==
  {[r \in 1..NPrec |-> [geometry |-> g[r], UNIQUE_ID |-> r]] :
     g \in [1..NPrec -> (SUBSET Cells) \ {{}}]}
DistrictLayers ==
  [1..NDist -> [geometry : (SUBSET Cells) \ {{}}, DISTRICT : DistrictCodes]]

NoMeta == PlanMeta("", "", 0)

BuildIdle ==
  /\ s2_precincts = <<>>
  /\ districts = <<>>
  /\ plan_meta = NoMeta
  /\ assignments = <<>>
  /\ n_unassigned = 0
  /\ build_pc = "off"

BuildInit ==
  /\ s2_precincts \in Stage2PrecinctLayers
  /\ districts \in DistrictLayers
  /\ plan_meta = PlanMeta("AZ", "CONG", 2022)
  /\ assignments = <<>>
  /\ n_unassigned = 0
  /\ build_pc = "start"

BuildAssignments ==
  /\ build_pc = "start"
  /\ LET out == BuildAssignmentsForPlan(s2_precincts, districts, plan_meta)
     IN /\ assignments' = out.assignments
        /\ n_unassigned' = out.n_unassigned
  /\ build_pc' = "done"
  /\ UNCHANGED <<s2_precincts, districts, plan_meta, stage1_vars, store_vars, dots_vars,
                 rerun_vars, main_vars,
                 round_vars, more_vars>>

Stage1Idle ==
  /\ bg = <<>>
  /\ bg_crs = NoCRS
  /\ precincts = <<>>
  /\ precincts_crs = NoCRS
  /\ stage1_pc = "off"
  /\ assignment = <<>>
  /\ agg_value = <<>>
  /\ out_crs = NoCRS
  /\ comparison = NoTable

\* ------------------------------------- Stage 2: main and the central stores
States == {"AZ"}
PlanYears == {2021, 2022}
ChamberKeys == {"cong", "sl"}

\* chamber_codes.get(chamber_key, chamber_key.upper())
ChamberCode(key) == IF key = "cong" THEN "CONG" ELSE "SL"

\* rec.get(key) == v: a record without the key yields None, equal to no value
GetEquals(rec, key, v) == key \in DOMAIN rec /\ rec[key] = v

\* [e for e in existing if not (e.get("state") == state and e.get("year") == year)]
RemoveOldEntries(entries, state, year) ==
  SelectSeq(entries, LAMBDA e :
    ~(GetEquals(e, "state", state) /\ GetEquals(e, "year", year)))

\* the layers the Stage 2 runs read: a precinct layer of one precinct and
\* plan layers of one district, with every placement and a code that is
\* numeric, reserved or missing
StorePrecinctLayers ==
  {<<[geometry |-> g, UNIQUE_ID |-> 1]>> : g \in (SUBSET Cells) \ {{}}}
StoreDistrictLayers ==
  {<<[geometry |-> g, DISTRICT |-> c]>> :
     g \in (SUBSET Cells) \ {{}}, c \in {"1", "ZZZ", NoCode}}

StoreIdle ==
  /\ plans_json = <<>>
  /\ assignments_json = <<>>
  /\ run_state = ""
  /\ plan_year = 0
  /\ plan_files = {}
  /\ all_plans = <<>>
  /\ all_assignments = <<>>
  /\ stage2_pc = "off"
  /\ failed_chambers = {}
  /\ runs = 0

\* the central files do not exist before the first run
StoreInit ==
  /\ plans_json = <<>>
  /\ assignments_json = <<>>
  /\ run_state = ""
  /\ plan_year = 0
  /\ plan_files = {}
  /\ all_plans = <<>>
  /\ all_assignments = <<>>
  /\ stage2_pc = "idle"
  /\ failed_chambers = {}
  /\ runs = 0
  /\ s2_precincts = <<>>
  /\ districts = <<>>
  /\ plan_meta = NoMeta
  /\ assignments = <<>>
  /\ n_unassigned = 0
  /\ build_pc = "off"

\* main up to the chamber loop: the precincts are loaded and
\* find_plan_shapefiles returns the chambers found for the year
Stage2Start ==
  /\ stage2_pc = "idle"
  /\ runs < MaxRuns
  /\ \E st \in States, yr \in PlanYears, files \in (SUBSET ChamberKeys) \ {{}} :
       /\ run_state' = st
       /\ plan_year' = yr
       /\ plan_files' = files
  /\ all_plans' = <<>>
  /\ all_assignments' = <<>>
  /\ s2_precincts' \in StorePrecinctLayers
  /\ stage2_pc' = "chambers"
  /\ failed_chambers' = {}
  /\ runs' = runs + 1
  /\ UNCHANGED <<plans_json, assignments_json, districts, plan_meta, assignments,
                 n_unassigned, build_pc, stage1_vars, dots_vars,
                 rerun_vars, main_vars,
                 round_vars, more_vars>>

\* find_plan_shapefiles raises FileNotFoundError: main prints and returns
Stage2NoPlanFiles ==
  /\ stage2_pc = "idle"
  /\ runs < MaxRuns
  /\ runs' = runs + 1
  /\ UNCHANGED <<failed_chambers, plans_json, assignments_json, run_state, plan_year, plan_files,
                 all_plans, all_assignments, stage2_pc, build_vars, stage1_vars, dots_vars,
                 rerun_vars, main_vars,
                 round_vars, more_vars>>

\* one pass of the chamber loop in which load_plan and
\* build_assignments_for_plan succeed
ProcessChamber ==
  /\ stage2_pc = "chambers"
  /\ \E key \in plan_files, layer \in StoreDistrictLayers :
       LET meta == PlanMeta(run_state, ChamberCode(key), plan_year)
           out == BuildAssignmentsForPlan(s2_precincts, layer, meta)
       IN /\ all_plans' = Append(all_plans, meta)
          /\ all_assignments' = all_assignments \o out.assignments
          /\ plan_files' = plan_files \ {key}
  /\ UNCHANGED <<failed_chambers, plans_json, assignments_json, run_state, plan_year, stage2_pc,
                 runs, build_vars, stage1_vars, dots_vars,
                 rerun_vars, main_vars,
                 round_vars, more_vars>>

\* the plan of the chamber that failed is recorded all the same
ProcessChamberFailsRecorded ==
  /\ stage2_pc = "chambers"
  /\ \E key \in plan_files :
       /\ plan_files' = plan_files \ {key}
       /\ failed_chambers' = failed_chambers \cup {key}
       /\ all_plans' = Append(all_plans, PlanMeta(run_state, ChamberCode(key), plan_year))
  /\ UNCHANGED <<plans_json, assignments_json, run_state, plan_year,
                 all_assignments, stage2_pc, runs, build_vars, stage1_vars, dots_vars,
                 rerun_vars, main_vars,
                 round_vars, more_vars>>

\* one pass of the chamber loop in which load_plan raises (no shapefile, no
\* district identifier column): the exception is caught and printed
ProcessChamberFails ==
  /\ stage2_pc = "chambers"
  /\ \E key \in plan_files :
       /\ plan_files' = plan_files \ {key}
       /\ failed_chambers' = failed_chambers \cup {key}
  /\ UNCHANGED <<plans_json, assignments_json, run_state, plan_year, all_plans,
                 all_assignments, stage2_pc, runs, build_vars, stage1_vars, dots_vars,
                 rerun_vars, main_vars,
                 round_vars, more_vars>>

\* the run that processed no plan writes the stores all the same
Stage2NoPlansSaves ==
  /\ stage2_pc = "chambers"
  /\ plan_files = {}
  /\ all_plans = <<>>
  /\ plans_json' = RemoveOldEntries(plans_json, run_state, plan_year)
  /\ assignments_json' = RemoveOldEntries(assignments_json, run_state, plan_year)
  /\ stage2_pc' = "idle"
  /\ UNCHANGED <<failed_chambers, run_state, plan_year, plan_files,
                 all_plans, all_assignments, runs, build_vars, stage1_vars, dots_vars,
                 rerun_vars, main_vars,
                 round_vars, more_vars>>

\* after the loop, no plan was processed: main prints and returns
Stage2NoPlans ==
  /\ stage2_pc = "chambers"
  /\ plan_files = {}
  /\ all_plans = <<>>
  /\ stage2_pc' = "idle"
  /\ UNCHANGED <<failed_chambers, plans_json, assignments_json, run_state, plan_year, plan_files,
                 all_plans, all_assignments, runs, build_vars, stage1_vars, dots_vars,
                 rerun_vars, main_vars,
                 round_vars, more_vars>>

\* after the loop: load the central files, remove the old entries of this
\* state and year, append the new ones and write the files back
Stage2Save ==
  /\ stage2_pc = "chambers"
  /\ plan_files = {}
  /\ all_plans # <<>>
  /\ plans_json' = RemoveOldEntries(plans_json, run_state, plan_year) \o all_plans
  /\ assignments_json' =
       RemoveOldEntries(assignments_json, run_state, plan_year) \o all_assignments
  /\ stage2_pc' = "idle"
  /\ UNCHANGED <<failed_chambers, run_state, plan_year, plan_files, all_plans, all_assignments,
                 runs, build_vars, stage1_vars, dots_vars,
                 rerun_vars, main_vars,
                 round_vars, more_vars>>

\* --------------------------------------------------------- Stage 3: the dots
\* GROUP_COLS_TEMPLATE in dict order (the first two of its groups)
GroupOrder == <<"white", "black">>
Groups == {GroupOrder[k] : k \in DOMAIN GroupOrder}

\* --dot-unit takes any integer.  0 is left out: counts / 0.0 is inf or nan,
\* and what astype(int) makes of those depends on the platform
DotUnits == {0 - 2, 1, 2}
Seeds == {0, 1}

\* the seeded generators: a generator built from a seed yields one fixed
\* sequence of numbers in [0, 1); the k-th number is NpDraw(seed, k) / RngM for
\* np.random.default_rng(seed) and PyDraw(seed, k) / RngM for
\* random.Random(seed)
RngM == 16
NpA == 5
NpC == 3
PyA == 13
PyC == 7

RECURSIVE NpDraw(_, _)
NpDraw(sd, k) ==
  IF k = 0 THEN sd % RngM ELSE (NpA * NpDraw(sd, k - 1) + NpC) % RngM

\* the sequence of random.Random(seed) comes round again after RngM numbers
RECURSIVE PyDraw(_, _)
PyDraw(sd, k) ==
  LET j == k % RngM
  IN IF j = 0 THEN sd % RngM ELSE (PyA * PyDraw(sd, j - 1) + PyC) % RngM

\* dot geometries lie on a strip of unit cells: cell c spans x in [c-1, c] and
\* y in [0, 1]; a part is the set of cells it occupies, and the part with no
\* cell is a polygon collapsed to zero area
DotGeoms ==
  {[type |-> "Empty", geoms |-> <<>>],
   [type |-> "Polygon", geoms |-> <<{1, 3}>>],
   [type |-> "Polygon", geoms |-> <<{}>>],
   [type |-> "MultiPolygon", geoms |-> <<{1}, {3}>>]}

IsEmptyGeom(geom) == geom.type = "Empty"

SetMax(S) == CHOOSE x \in S : \A y \in S : y <= x

\* a part may also hold pieces of no area, written as numbers above 10:
\* over the cell c of the strip, Diagonal(c) is a sliver along the diagonal of
\* the cell, BottomEdge(c) one along its lower edge and LeftSide(c) one along
\* its left side
Diagonal(c) == 10 + c
BottomEdge(c) == 20 + c
LeftSide(c) == 30 + c

\* the cells a part fills
Solid(poly) == {c \in poly : c < 10}

\* the bounding box of one piece, in cell units
PieceBox(c) ==
  LET col == c % 10
  IN IF c \div 10 = 2 THEN [minx |-> col - 1, maxx |-> col, miny |-> 0, maxy |-> 0]
     ELSE IF c \div 10 = 3
       THEN [minx |-> col - 1, maxx |-> col - 1, miny |-> 0, maxy |-> 1]
       ELSE [minx |-> col - 1, maxx |-> col, miny |-> 0, maxy |-> 1]

\* poly.bounds
Bounds(poly) ==
  IF poly = {} THEN [minx |-> 0, maxx |-> 0, miny |-> 0, maxy |-> 0]
  ELSE [minx |-> SetMin({PieceBox(c).minx : c \in poly}),
        maxx |-> SetMax({PieceBox(c).maxx : c \in poly}),
        miny |-> SetMin({PieceBox(c).miny : c \in poly}),
        maxy |-> SetMax({PieceBox(c).maxy : c \in poly})]

\* coordinates are kept as multiples of 1 / RngM
\* poly.representative_point(): a point inside the polygon, or on it when
\* it has no inside
RepresentativePoint(poly) ==
  IF poly = {} THEN [x |-> 0, y |-> 0]
  ELSE IF Solid(poly) = {}
    THEN [x |-> Bounds(poly).minx * RngM, y |-> Bounds(poly).miny * RngM]
    ELSE [x |-> (SetMin(Solid(poly)) - 1) * RngM + RngM \div 2, y |-> RngM \div 2]

\* rng.uniform(a, b) = a + (b - a) * rng.random()
Uniform(a, b, u) == a * RngM + (b - a) * u

\* poly.contains(p): p is in the interior of poly
Contains(poly, p) ==
  /\ p.y % RngM # 0
  /\ IF p.x % RngM # 0 THEN (p.x \div RngM) + 1 \in Solid(poly)
     ELSE (p.x \div RngM) \in Solid(poly) /\ (p.x \div RngM) + 1 \in Solid(poly)

\* for _ in range(2000)
MaxAttempts == 2000

\* the for loop of random_point_in_polygon, k numbers having been drawn from
\* rng before: the first attempt whose point the polygon contains returns it;
\* when none of the MaxAttempts does, the representative point is returned
RejectionSample(poly, sd, k) ==
  LET b == Bounds(poly)
      p(j) == [x |-> Uniform(b.minx, b.maxx, PyDraw(sd, k + 2 * j - 1)),
               y |-> Uniform(b.miny, b.maxy, PyDraw(sd, k + 2 * j))]
  IN IF \E j \in 1..MaxAttempts : Contains(poly, p(j))
       THEN LET first == CHOOSE j \in 1..MaxAttempts :
                           /\ Contains(poly, p(j))
                           /\ \A i \in 1..(j - 1) : ~Contains(poly, p(i))
            IN [point |-> p(first), draws |-> k + 2 * first]
       ELSE [point |-> RepresentativePoint(poly), draws |-> k + 2 * MaxAttempts]

\* the first point drawn is returned, inside the polygon or not
RandomPointInPolygonUnchecked(poly, sd, k) ==
  LET b == Bounds(poly)
  IN IF b.maxx <= b.minx \/ b.maxy <= b.miny
       THEN [point |-> RepresentativePoint(poly), draws |-> k]
       ELSE [point |-> [x |-> Uniform(b.minx, b.maxx, PyDraw(sd, k + 1)),
                        y |-> Uniform(b.miny, b.maxy, PyDraw(sd, k + 2))],
             draws |-> k + 2]

\* the bounding box is not looked at before sampling
RandomPointInPolygonAlwaysSamples(poly, sd, k) == RejectionSample(poly, sd, k)

\* random_point_in_polygon(poly, rng)
RandomPointInPolygon(poly, sd, k) ==
  LET b == Bounds(poly)
  IN IF b.maxx <= b.minx \/ b.maxy <= b.miny
       THEN [point |-> RepresentativePoint(poly), draws |-> k]
       ELSE RejectionSample(poly, sd, k)

\* the parts np.random.default_rng().choice(len(geoms), p=probs) can return:
\* the generator is not seeded, so any part of positive probability
PartChoices(geom) ==
  IF geom.type = "MultiPolygon"
       /\ \E j \in DOMAIN geom.geoms : Cardinality(geom.geoms[j]) > 0
    THEN {j \in DOMAIN geom.geoms : Cardinality(geom.geoms[j]) > 0}
    ELSE {1}

\* area_weighted_sample_point(geom, rng), the unseeded choice having returned
\* the given part
AreaWeightedSamplePoint(geom, choice, sd, k) ==
  IF IsEmptyGeom(geom) THEN [point |-> [x |-> 0, y |-> 0], draws |-> k]
  ELSE IF geom.type = "Polygon" THEN RandomPointInPolygon(geom.geoms[1], sd, k)
  ELSE IF \A j \in DOMAIN geom.geoms : Cardinality(geom.geoms[j]) = 0
    THEN RandomPointInPolygon(geom.geoms[1], sd, k)
    ELSE RandomPointInPolygon(geom.geoms[choice], sd, k)

\* the groups of dots_by_group in insertion order: those whose column is in
\* the layer
PresentGroups(cols) == SelectSeq(GroupOrder, LAMBDA g : g \in cols)

\* np.floor(a / float(b)) for a >= 0 and b # 0
FloorDiv(a, b) == IF b > 0 THEN a \div b ELSE 0 - ((a + (0 - b) - 1) \div (0 - b))

\* ------------------------------------------ Stage 3: rounding of one count
\* the extra dot is given when the draw is at most frac
RoundedDotsAtMost(count, unit, u) ==
  LET base == FloorDiv(count, unit)
      frac_num == count - base * unit
  IN base + (IF u * unit <= frac_num * RngM THEN 1 ELSE 0)

\* the count is rounded to the nearest whole number of dots
RoundedDotsNearest(count, unit, u) ==
  LET base == FloorDiv(count, unit)
      frac_num == count - base * unit
  IN base + (IF 2 * frac_num >= unit THEN 1 ELSE 0)

\* base + add_one for one count: expected = count / float(dot_unit),
\* base = floor(expected), add_one = (u / RngM < expected - base)
RoundedDots(count, unit, u) ==
  LET base == FloorDiv(count, unit)
      frac_num == count - base * unit      \* frac = frac_num / unit
      add_one == IF unit > 0 THEN u * unit < frac_num * RngM
                 ELSE u * unit > frac_num * RngM
  IN base + (IF add_one THEN 1 ELSE 0)

\* compute_dots_for_groups(bg, dot_unit, groups, seed): the one generator
\* serves the groups in turn, len(bg) numbers each
ComputeDotsForGroups(layer, unit, cols, sd) ==
  LET groups == PresentGroups(cols)
      n == Len(layer)
  IN [dots |-> [g \in cols |-> [i \in 1..n |->
                  LET k == CHOOSE j \in DOMAIN groups : groups[j] = g
                  IN RoundedDots(FillNa0(layer[i].counts[g]), unit,
                                 NpDraw(sd, (k - 1) * n + i))]],
      counts |-> [g \in cols |-> [i \in 1..n |-> FillNa0(layer[i].counts[g])]]]

\* total_dots[i]
TotalDots(dots, i) == SetSum([g \in DOMAIN dots |-> dots[g][i]], DOMAIN dots)

\* the presence pass finds no block group to serve
ZeroIdxsNone(dots, tot_pop) == {}

\* the presence pass serves every block group
ZeroIdxsEvery(dots, tot_pop) == DOMAIN tot_pop

\* np.where((tot_pop > 0) & (total_dots == 0))[0]
ZeroIdxs(dots, tot_pop) ==
  {i \in DOMAIN tot_pop : tot_pop[i] > 0 /\ TotalDots(dots, i) = 0}

SeqMax(q) == SetMax({q[j] : j \in DOMAIN q})

RECURSIVE SortedSeq(_)
SortedSeq(S) == IF S = {} THEN <<>> ELSE <<SetMin(S)>> \o SortedSeq(S \ {SetMin(S)})

\* every category is a candidate for the extra dot
TopIdxsAny(cvals) == SortedSeq(DOMAIN cvals)

\* np.where(cvals == mx)[0]
TopIdxs(cvals) == SortedSeq({j \in DOMAIN cvals : cvals[j] = SeqMax(cvals)})

\* rng.choice(top_idxs): the element the next number u / RngM selects
RngChoice(top_idxs, u) == top_idxs[(u * Len(top_idxs)) \div RngM + 1]

RECURSIVE PresenceLoop(_, _, _, _, _, _)
\* the loop over zero_idxs from row i on, k numbers having been drawn
PresenceLoop(dots, counts, zero_idxs, sd, i, k) ==
  LET groups == PresentGroups(DOMAIN dots)
  IN IF zero_idxs = {} \/ i > SetMax(zero_idxs) THEN dots
     ELSE IF i \notin zero_idxs THEN PresenceLoop(dots, counts, zero_idxs, sd, i + 1, k)
     ELSE LET cvals == [j \in DOMAIN groups |-> counts[groups[j]][i]]
          IN IF SeqMax(cvals) <= 0
               THEN PresenceLoop(dots, counts, zero_idxs, sd, i + 1, k)
               ELSE LET choice == RngChoice(TopIdxs(cvals), NpDraw(sd, k + 1))
                        g_sel == groups[choice]
                    IN PresenceLoop([dots EXCEPT ![g_sel][i] = @ + 1],
                                    counts, zero_idxs, sd, i + 1, k + 1)

\* ensure_presence(dots_by_group, counts_by_group, tot_pop, seed)
EnsurePresence(dots, counts, tot_pop, sd) ==
  IF DOMAIN dots = {} THEN dots
  ELSE PresenceLoop(dots, counts, ZeroIdxs(dots, tot_pop), sd, 1, 0)

\* a pair without a dot is given one all the same
RepeatAtLeastOnce(x, n) == [j \in 1..(IF n <= 0 THEN 1 ELSE n) |-> x]

\* for _ in range(n), behind 'if n <= 0: continue'
RECURSIVE Repeat(_, _)
Repeat(x, n) == IF n <= 0 THEN <<>> ELSE <<x>> \o Repeat(x, n - 1)

RECURSIVE RowDotGroups(_, _, _)
\* the group of every dot of row i in the order the loops emit them, from
\* the j-th group of group_cols on
RowDotGroups(dots, i, j) ==
  IF j > Len(GroupOrder) THEN <<>>
  ELSE LET group == GroupOrder[j]
       IN (IF group \in DOMAIN dots THEN Repeat(group, dots[group][i]) ELSE <<>>)
            \o RowDotGroups(dots, i, j + 1)

RECURSIVE SampleDots(_, _, _, _, _, _, _)
\* the features of one row from its j-th dot on, k numbers having been drawn
SampleDots(geom, row, dot_groups, pick, sd, k, j) ==
  IF j > Len(dot_groups) THEN [feats |-> <<>>, draws |-> k]
  ELSE LET s == AreaWeightedSamplePoint(geom, pick[j], sd, k)
           rest == SampleDots(geom, row, dot_groups, pick, sd, s.draws, j + 1)
       IN [feats |-> <<[group |-> dot_groups[j], geometry |-> s.point,
                        bg_geoid |-> row]>> \o rest.feats,
           draws |-> rest.draws]

DotLayers ==
  [1..NPoly -> [geometry : DotGeoms, counts : [Groups -> 0..MaxCount],
                tot_pop : {0, 1}]]

\* the layers with the GEOID column: each row carries its identifier
WithGeoid(layers) ==
  {[i \in DOMAIN l |-> [geometry |-> l[i].geometry, counts |-> l[i].counts,
                        tot_pop |-> l[i].tot_pop, GEOID |-> i]] : l \in layers}

NoFile == [crs |-> NoCRS, features |-> <<>>]

DotsIdle ==
  /\ dot_bg = <<>>
  /\ bg_columns = {}
  /\ dot_unit = 1
  /\ seed = 0
  /\ dots_by_group = <<>>
  /\ counts_by_group = <<>>
  /\ feats = <<>>
  /\ emit_row = 0
  /\ py_draws = 0
  /\ dots_file = NoFile
  /\ dots_pc = "off"
  /\ dot_runs = 0
  /\ prev_feats = <<>>

DotsInit ==
  /\ dot_bg \in WithGeoid(DotLayers)
  /\ bg_columns \in SUBSET Groups
  /\ dot_unit \in DotUnits
  /\ seed \in Seeds
  /\ dots_by_group = <<>>
  /\ counts_by_group = <<>>
  /\ feats = <<>>
  /\ emit_row = 0
  /\ py_draws = 0
  /\ dots_file = NoFile
  /\ dots_pc = "start"
  /\ dot_runs = 1
  /\ prev_feats = <<>>

\* tot_pop = bg[total_pop_col].fillna(0).astype(float).values
\* layers in which a count may be null: read_file gives NaN for a null cell
MissingLayers ==
  [1..NPoly -> [geometry : {[type |-> "Polygon", geoms |-> <<{1, 3}>>]},
                counts : [Groups -> {NaN} \cup 0..MaxCount],
                tot_pop : {1}]]

MissingInit ==
  /\ dot_bg \in WithGeoid(MissingLayers)
  /\ bg_columns \in SUBSET Groups
  /\ dot_unit \in {1, 2}
  /\ seed \in Seeds \cup {2}
  /\ dots_by_group = <<>>
  /\ counts_by_group = <<>>
  /\ feats = <<>>
  /\ emit_row = 0
  /\ py_draws = 0
  /\ dots_file = NoFile
  /\ dots_pc = "start"
  /\ dot_runs = 1
  /\ prev_feats = <<>>

TotPop == [i \in DOMAIN dot_bg |-> FillNa0(dot_bg[i].tot_pop)]

\* [2] compute_dots_for_groups
ComputeDots ==
  /\ dots_pc = "start"
  /\ LET out == ComputeDotsForGroups(dot_bg, dot_unit, bg_columns, seed)
     IN /\ dots_by_group' = out.dots
        /\ counts_by_group' = out.counts
  /\ dots_pc' = "rounded"
  /\ UNCHANGED <<dot_bg, bg_columns, dot_unit, seed, feats, emit_row, py_draws,
                 dots_file, dot_runs, prev_feats, stage1_vars, build_vars, store_vars,
                 rerun_vars, main_vars,
                 round_vars, more_vars>>

\* [3] ensure_presence, then rng = random.Random(args.seed) and feats = []
EnsurePresenceStep ==
  /\ dots_pc = "rounded"
  /\ dots_by_group' = EnsurePresence(dots_by_group, counts_by_group, TotPop, seed)
  /\ feats' = <<>>
  /\ py_draws' = 0
  /\ emit_row' = 1
  /\ dots_pc' = "present"
  /\ UNCHANGED <<dot_bg, bg_columns, dot_unit, seed, counts_by_group, dots_file,
                 dot_runs, prev_feats, stage1_vars, build_vars, store_vars,
                 rerun_vars, main_vars,
                 round_vars, more_vars>>

\* one pass of the loop over bg.iterrows(): a row without geometry is
\* skipped, any other gets its dots group by group
EmitRow ==
  /\ dots_pc = "present"
  /\ emit_row <= Len(dot_bg)
  /\ LET geom == dot_bg[emit_row].geometry
         dot_groups == RowDotGroups(dots_by_group, emit_row, 1)
     IN IF IsEmptyGeom(geom)
          THEN UNCHANGED <<feats, py_draws>>
          ELSE \E pick \in [DOMAIN dot_groups -> PartChoices(geom)] :
                 LET out == SampleDots(geom, dot_bg[emit_row].GEOID, dot_groups,
                                       pick, seed, py_draws, 1)
                 IN /\ feats' = feats \o out.feats
                    /\ py_draws' = out.draws
  /\ emit_row' = emit_row + 1
  /\ UNCHANGED <<dot_bg, bg_columns, dot_unit, seed, dots_by_group, counts_by_group,
                 dots_file, dots_pc, dot_runs, prev_feats, stage1_vars, build_vars,
                 store_vars,
                 rerun_vars, main_vars,
                 round_vars, more_vars>>

\* if not feats: print and return, nothing is written
NoDotsGenerated ==
  /\ dots_pc = "present"
  /\ emit_row > Len(dot_bg)
  /\ feats = <<>>
  /\ dots_pc' = "done"
  /\ UNCHANGED <<dot_bg, bg_columns, dot_unit, seed, dots_by_group, counts_by_group,
                 feats, emit_row, py_draws, dots_file, dot_runs, prev_feats,
                 stage1_vars, build_vars, store_vars,
                 rerun_vars, main_vars,
                 round_vars, more_vars>>

\* [4] dots.to_crs(4326).to_file(dots_combined)
WriteDots ==
  /\ dots_pc = "present"
  /\ emit_row > Len(dot_bg)
  /\ feats # <<>>
  /\ dots_file' = [crs |-> OUTPUT_CRS, features |-> feats]
  /\ dots_pc' = "done"
  /\ UNCHANGED <<dot_bg, bg_columns, dot_unit, seed, dots_by_group, counts_by_group,
                 feats, emit_row, py_draws, dot_runs, prev_feats, stage1_vars,
                 build_vars, store_vars,
                 rerun_vars, main_vars,
                 round_vars, more_vars>>

\* the program is run once more with the same arguments on the same layer
RunAgain ==
  /\ dots_pc = "done"
  /\ dot_runs = 1
  /\ dot_runs' = 2
  /\ prev_feats' = feats
  /\ dots_by_group' = <<>>
  /\ counts_by_group' = <<>>
  /\ feats' = <<>>
  /\ emit_row' = 0
  /\ py_draws' = 0
  /\ dots_pc' = "start"
  /\ UNCHANGED <<dot_bg, bg_columns, dot_unit, seed, dots_file, stage1_vars,
                 build_vars, store_vars,
                 rerun_vars, main_vars,
                 round_vars, more_vars>>

\* layers of two block groups, each one polygon
PermutedLayers ==
  [1..2 -> [geometry : {[type |-> "Polygon", geoms |-> <<{1, 3}>>]},
            counts : [Groups -> 0..MaxCount],
            tot_pop : {1}]]

PermutedInit ==
  /\ dot_bg \in WithGeoid(PermutedLayers)
  /\ bg_columns = Groups
  /\ dot_unit \in {1, 2}
  /\ seed \in Seeds
  /\ dots_by_group = <<>>
  /\ counts_by_group = <<>>
  /\ feats = <<>>
  /\ emit_row = 0
  /\ py_draws = 0
  /\ dots_file = NoFile
  /\ dots_pc = "start"
  /\ dot_runs = 1
  /\ prev_feats = <<>>

\* the program is run once more with the same arguments on the same block
\* groups, read in the reverse order
RunPermuted ==
  /\ dots_pc = "done"
  /\ dot_runs = 1
  /\ dot_runs' = 2
  /\ dot_bg' = [i \in DOMAIN dot_bg |-> dot_bg[Len(dot_bg) + 1 - i]]
  /\ prev_feats' = feats
  /\ dots_by_group' = <<>>
  /\ counts_by_group' = <<>>
  /\ feats' = <<>>
  /\ emit_row' = 0
  /\ py_draws' = 0
  /\ dots_pc' = "start"
  /\ UNCHANGED <<bg_columns, dot_unit, seed, dots_file, stage1_vars,
                 build_vars, store_vars,
                 rerun_vars, main_vars,
                 round_vars, more_vars>>

DotsNext ==
  \/ ComputeDots
  \/ EnsurePresenceStep
  \/ EmitRow
  \/ NoDotsGenerated
  \/ WriteDots

\* ------------------------------------------- Stage 1: a second call
\* aggregate_bg_to_precincts is called once more with the same arguments
AggregateAgain ==
  /\ stage1_pc = "done"
  /\ stage1_runs = 1
  /\ stage1_runs' = 2
  /\ prev_agg_value' = agg_value
  /\ prev_comparison' = comparison
  /\ assignment' = [s \in 1..NSrc |-> NaN]
  /\ agg_value' = [t \in 1..NTgt |-> NaN]
  /\ out_crs' = NoCRS
  /\ comparison' = NoTable
  /\ stage1_pc' = "start"
  /\ UNCHANGED <<bg, bg_crs, precincts, precincts_crs, build_vars, store_vars,
                 dots_vars, main_vars,
                 round_vars, more_vars>>

\* ------------------------------------------------ Stage 1: main, the columns
\* the columns of the model: the Hispanic count, two of the non-Hispanic race
\* counts and two of the income brackets stand for the full lists
HSP_POP == "HSP_POP"
NHSP_POP == "NHSP_POP"
TOT_POP == "TOT_POP"
TOT_HOUS == "TOT_HOUS"
NhspComponents == <<"WHT_POP", "BLK_POP">>
income_cols == <<"LESS_10K", "10K_15K">>

SeqSet(q) == {q[j] : j \in DOMAIN q}

race_cols == {HSP_POP} \cup SeqSet(NhspComponents)
race_cols_all == race_cols \cup {NHSP_POP, TOT_POP}
income_cols_all == SeqSet(income_cols) \cup {TOT_HOUS}
numeric_cols == race_cols_all \cup income_cols_all

\* a + b on two columns: a missing value on either side gives a missing value
NaNAdd(a, b) == IF a = NaN \/ b = NaN THEN NaN ELSE a + b

RECURSIVE NaNAddAll(_, _, _)
\* row[cols[1]] + row[cols[2]] + ... from the j-th column on
NaNAddAll(row, cols, j) ==
  IF j = Len(cols) THEN row[cols[j]]
  ELSE NaNAdd(row[cols[j]], NaNAddAll(row, cols, j + 1))

\* bg[cols].sum(axis=1): missing values are skipped
SumAxis1(row, cols) ==
  SetSum([c \in SeqSet(cols) |-> row[c]], {c \in SeqSet(cols) : row[c] # NaN})

\* step 4 of main on one block group: NHSP_POP and TOT_POP by +, TOT_HOUS by
\* sum(axis=1), then fillna(0) on every numeric column
DeriveTotals(row) ==
  LET nhsp == NaNAddAll(row, NhspComponents, 1)
      tot == NaNAdd(row[HSP_POP], nhsp)
      hous == SumAxis1(row, income_cols)
      derived == [c \in numeric_cols |->
                    IF c = NHSP_POP THEN nhsp
                    ELSE IF c = TOT_POP THEN tot
                    ELSE IF c = TOT_HOUS THEN hous
                    ELSE row[c]]
  IN [c \in numeric_cols |-> FillNa0(derived[c])]

\* aggregate_bg_to_precincts(bg, precincts, columns, label): the columns it
\* sets on the precinct layer
AggregateColumns(layer, table, targets, columns) ==
  LET asg == MaupAssign(layer, targets)
  IN [t \in DOMAIN targets |-> [c \in columns |->
        GroupBySum([s \in DOMAIN layer |-> [value |-> table[s][c]]], asg, t)]]

\* the values a cell of the ACS tables can hold after the left merges
CellValues == {NaN, 0, 1}
IncomeValues == {NaN, 1}

MainBgLayers ==
  [1..NBg -> [geometry : {{1}, {1, 2}},
              HSP_POP : CellValues, WHT_POP : IncomeValues, BLK_POP : IncomeValues,
              LESS_10K : IncomeValues, 10K_15K : IncomeValues]]

\* two precincts, side by side or one upon the other
MainPrecinctLayers ==
  {<<[geometry |-> {1}], [geometry |-> g]>> : g \in {{1}, {2}}}

MainInit ==
  /\ main_bg \in MainBgLayers
  /\ bg_table = <<>>
  /\ main_precincts \in MainPrecinctLayers
  /\ precinct_table = <<>>
  /\ precinct_out = <<>>
  /\ main_pc = "merged"

\* 4. Derive totals on BG side
DeriveOnBg ==
  /\ main_pc = "merged"
  /\ bg_table' = [s \in DOMAIN main_bg |-> DeriveTotals(main_bg[s])]
  /\ main_pc' = "derived"
  /\ UNCHANGED <<main_bg, main_precincts, precinct_table, precinct_out,
                 stage1_vars, build_vars, store_vars, dots_vars, rerun_vars,
                 round_vars, more_vars>>

\* 7. Aggregate race / CVAP / income from BG -> precincts
AggregateAll ==
  /\ main_pc = "derived"
  /\ LET race == AggregateColumns(main_bg, bg_table, main_precincts, race_cols_all)
         income == AggregateColumns(main_bg, bg_table, main_precincts, income_cols_all)
     IN precinct_table' =
          [t \in DOMAIN main_precincts |-> [c \in numeric_cols |->
             IF c \in race_cols_all THEN race[t][c] ELSE income[t][c]]]
  /\ main_pc' = "aggregated"
  /\ UNCHANGED <<main_bg, bg_table, main_precincts, precinct_out,
                 stage1_vars, build_vars, store_vars, dots_vars, rerun_vars,
                 round_vars, more_vars>>

\* fillna(0).round().astype("Int64") on every numeric column, then 10. save
SavePrecincts ==
  /\ main_pc = "aggregated"
  /\ precinct_out' = [t \in DOMAIN precinct_table |-> [c \in numeric_cols |->
                        FillNa0(precinct_table[t][c])]]
  /\ main_pc' = "saved"
  /\ UNCHANGED <<main_bg, bg_table, main_precincts, precinct_table,
                 stage1_vars, build_vars, store_vars, dots_vars, rerun_vars,
                 round_vars, more_vars>>

MainNext == DeriveOnBg \/ AggregateAll \/ SavePrecincts

RerunInit ==
  /\ stage1_runs = 1
  /\ prev_agg_value = <<>>
  /\ prev_comparison = NoTable

MainIdle ==
  /\ main_bg = <<>>
  /\ bg_table = <<>>
  /\ main_precincts = <<>>
  /\ precinct_table = <<>>
  /\ precinct_out = <<>>
  /\ main_pc = "off"

\* the units for which every frac = count / unit - floor(count / unit) is a
\* multiple of 1 / RngM
RoundUnits == {1, 2, 4}

\* ------------------------------------- Stage 3: the sampling of one point
\* the parts a point is drawn in: filled cells, a part collapsed to a point,
\* to a horizontal or to a vertical line, a sliver of no area whose bounding
\* box has one, and a filled cell with such a sliver attached
SampleParts ==
  {{1, 3}, {2}, {1, 2, 3}, {}, {BottomEdge(1)}, {LeftSide(2)},
   {Diagonal(1), Diagonal(2)}, {1, Diagonal(3)}}

NoSample == [point |-> [x |-> 0, y |-> 0], draws |-> 0]

SampleInit ==
  /\ sample_poly \in SampleParts
  /\ sample_seed \in 0..(RngM - 1)
  /\ sample_k \in 0..MaxDrawn
  /\ sample_out = NoSample
  /\ sample_pc = "start"

SampleIdle ==
  /\ sample_poly = {}
  /\ sample_seed = 0
  /\ sample_k = 0
  /\ sample_out = NoSample
  /\ sample_pc = "off"

\* ------------------------------------------ run_mongo: upload_assignments
\* the records an assignments file can hold: one precinct, one plan per state
UploadStates == {"AZ", "CA"}
UploadRecords ==
  {[state |-> st, plan_id |-> PlanId(st, "CONG", 2022), precinct_id |-> 1,
    district_id |-> d] : st \in UploadStates, d \in {1, 2}}

\* json.load(f): a list of up to two records
AssignmentFiles == UNION {[1..n -> UploadRecords] : n \in 0..2}

\* state_abbr of the call: a state, or None
NoState == "None"

\* the filter {'plan_id': ..., 'precinct_id': ...} matches the document
MatchesKey(doc, rec) ==
  doc.plan_id = rec.plan_id /\ doc.precinct_id = rec.precinct_id

\* the record is inserted whether or not a document matches
ReplaceOneInserts(coll, rec) == Append(coll, rec)

\* collection.replace_one(filter, assignment, upsert=True): the first
\* document that matches is replaced; when none does the record is inserted
ReplaceOneUpsert(coll, rec) ==
  IF \E i \in DOMAIN coll : MatchesKey(coll[i], rec)
    THEN LET first == SetMin({i \in DOMAIN coll : MatchesKey(coll[i], rec)})
         IN [coll EXCEPT ![first] = rec]
    ELSE Append(coll, rec)

RECURSIVE UpsertAll(_, _, _)
\* for assignment in assignments, from the j-th record on
UpsertAll(coll, records, j) ==
  IF j > Len(records) THEN coll
  ELSE UpsertAll(ReplaceOneUpsert(coll, records[j]), records, j + 1)

\* the records of the file the call upserts
FilterByState(all_assignments_, state_abbr) ==
  IF state_abbr # NoState
    THEN SelectSeq(all_assignments_, LAMBDA a : a.state = state_abbr)
    ELSE all_assignments_

MongoInit ==
  /\ mongo_assignments = <<>>
  /\ uploaded = <<>>
  /\ mongo_pc = "ready"

MongoIdle ==
  /\ mongo_assignments = <<>>
  /\ uploaded = <<>>
  /\ mongo_pc = "off"

\* upload_assignments(db, assignments_file, state_abbr) with records to upload
UploadAssignments ==
  /\ mongo_pc = "ready"
  /\ Len(uploaded) < MaxUploads
  /\ \E file \in AssignmentFiles, state_abbr \in UploadStates \cup {NoState} :
       LET assignments_ == FilterByState(file, state_abbr)
       IN /\ assignments_ # <<>>
          /\ mongo_assignments' = UpsertAll(mongo_assignments, assignments_, 1)
          /\ uploaded' = Append(uploaded, assignments_)
  /\ UNCHANGED <<mongo_pc, sample_vars, cli_vars, stage1_vars, build_vars, store_vars,
                 dots_vars, rerun_vars, main_vars, round_vars>>

\* upload_assignments with no record of the state in the file: it prints
\* and returns
UploadNothing ==
  /\ mongo_pc = "ready"
  /\ Len(uploaded) < MaxUploads
  /\ \E file \in AssignmentFiles, state_abbr \in UploadStates \cup {NoState} :
       FilterByState(file, state_abbr) = <<>>
  /\ uploaded' = Append(uploaded, <<>>)
  /\ UNCHANGED <<mongo_assignments, mongo_pc, sample_vars, cli_vars, stage1_vars, build_vars,
                 store_vars, dots_vars, rerun_vars, main_vars, round_vars>>

MongoNext == UploadAssignments \/ UploadNothing

\* ------------------------------------------------- run_all_stages: main
\* None, the default of --acs-year and --census-year
NoYear == 0 - 1

\* str(v)
Str(v) == IF v = NoYear THEN "None" ELSE ToString(v)

\* int(s) succeeds: s is a decimal literal
IsIntLiteral(s) == \E n \in 0..2100 : s = ToString(n)

\* the options of type int the parser of each stage script defines:
\* setup_argument_parser gives --acs-year and --census-year to all of them
IntOptions(stage) ==
  {"--acs-year", "--census-year"} \cup
    (CASE stage = 0 -> {"--plan-year"}
       [] stage = 1 -> {}
       [] stage = 2 -> {"--plan-year"}
       [] stage = 3 -> {"--dot-unit", "--seed"}
       [] stage = 4 -> {"--dot-unit"})

\* parser.parse_args() of the stage script accepts the forwarded options:
\* argparse exits with status 2 on an option it does not know and on a value
\* that int() rejects
ParseArgsAccepts(stage, argv) ==
  \A j \in DOMAIN argv :
    argv[j][1] \in IntOptions(stage) /\ IsIntLiteral(argv[j][2])

\* extra_args: a year that is not the literal 2023 (2020) is forwarded
ExtraArgs(args) ==
  (IF args.acs_year # 2023
     THEN <<(<<"--acs-year", Str(args.acs_year)>>)>> ELSE <<>>)
  \o (IF args.census_year # 2020
        THEN <<(<<"--census-year", Str(args.census_year)>>)>> ELSE <<>>)

\* stage_args of one stage
StageArgs(stage, args) ==
  ExtraArgs(args)
    \o (IF stage = 3 THEN <<(<<"--dot-unit", Str(args.dot_unit)>>)>> ELSE <<>>)
    \o (IF stage \in {2, 4} THEN <<(<<"--plan-year", Str(args.plan_year)>>)>> ELSE <<>>)

\* the lists --stages and --skip-stage0 give
StageLists == {<<0, 1, 2, 3, 4>>, <<1, 2, 3, 4>>, <<1, 2, 3>>, <<3>>}

CliInit ==
  /\ cli_args \in [acs_year : {NoYear, 2022, 2023}, census_year : {NoYear, 2020, 2021},
                    plan_year : {2022}, dot_unit : {50}]
  /\ stages_to_run \in StageLists
  /\ stage_i = 1
  /\ stage_num = 0
  /\ stage_args = <<>>
  /\ stage_success = TRUE
  /\ cli_pc = "loop"

CliIdle ==
  /\ cli_args = [acs_year |-> NoYear, census_year |-> NoYear, plan_year |-> 2022,
                 dot_unit |-> 50]
  /\ stages_to_run = <<>>
  /\ stage_i = 1
  /\ stage_num = 0
  /\ stage_args = <<>>
  /\ stage_success = TRUE
  /\ cli_pc = "off"

\* one pass of the loop over stages_to_run: the stage script is started with
\* stage_args; it fails when its parser rejects them, and may fail later
RunStage ==
  /\ cli_pc = "loop"
  /\ stage_i <= Len(stages_to_run)
  /\ stage_num' = stages_to_run[stage_i]
  /\ stage_args' = StageArgs(stages_to_run[stage_i], cli_args)
  /\ \E success \in BOOLEAN :
       /\ success => ParseArgsAccepts(stages_to_run[stage_i], stage_args')
       /\ stage_success' = success
       /\ cli_pc' = IF success THEN "loop" ELSE "asked"
  /\ stage_i' = stage_i + 1
  /\ UNCHANGED <<cli_args, stages_to_run, sample_vars, mongo_vars, stage1_vars,
                 build_vars, store_vars, dots_vars, rerun_vars, main_vars,
                 round_vars>>

\* 'Continue with remaining stages?' is answered y
ContinueAfterFailure ==
  /\ cli_pc = "asked"
  /\ cli_pc' = "loop"
  /\ UNCHANGED <<cli_args, stages_to_run, stage_i, stage_num, stage_args,
                 stage_success, sample_vars, mongo_vars, stage1_vars, build_vars,
                 store_vars, dots_vars, rerun_vars, main_vars, round_vars>>

\* it is answered otherwise, or interrupted: break
StopAfterFailure ==
  /\ cli_pc = "asked"
  /\ cli_pc' = "end"
  /\ UNCHANGED <<cli_args, stages_to_run, stage_i, stage_num, stage_args,
                 stage_success, sample_vars, mongo_vars, stage1_vars, build_vars,
                 store_vars, dots_vars, rerun_vars, main_vars, round_vars>>

\* the loop has gone through every stage
AllStagesRun ==
  /\ cli_pc = "loop"
  /\ stage_i > Len(stages_to_run)
  /\ cli_pc' = "end"
  /\ UNCHANGED <<cli_args, stages_to_run, stage_i, stage_num, stage_args,
                 stage_success, sample_vars, mongo_vars, stage1_vars, build_vars,
                 store_vars, dots_vars, rerun_vars, main_vars, round_vars>>

CliNext ==
  \/ RunStage
  \/ ContinueAfterFailure
  \/ StopAfterFailure
  \/ AllStagesRun

MoreIdle == SampleIdle /\ MongoIdle /\ CliIdle

\* p = random_point_in_polygon(poly, rng)
SamplePoint ==
  /\ sample_pc = "start"
  /\ sample_out' = RandomPointInPolygon(sample_poly, sample_seed, sample_k)
  /\ sample_pc' = "done"
  /\ UNCHANGED <<sample_poly, sample_seed, sample_k, mongo_vars, cli_vars, stage1_vars,
                 build_vars, store_vars, dots_vars, rerun_vars, main_vars,
                 round_vars>>

SampleNext == SamplePoint


RoundInit ==
  /\ round_count \in 0..MaxRoundCount
  /\ round_unit \in RoundUnits
  /\ round_u \in 0..(RngM - 1)
  /\ round_dots = 0
  /\ round_pc = "start"

RoundIdle ==
  /\ round_count = 0
  /\ round_unit = 1
  /\ round_u = 0
  /\ round_dots = 0
  /\ round_pc = "off"

\* dots = base + add_one for one element of the arrays
RoundOne ==
  /\ round_pc = "start"
  /\ round_dots' = RoundedDots(round_count, round_unit, round_u)
  /\ round_pc' = "done"
  /\ UNCHANGED <<round_count, round_unit, round_u, stage1_vars, build_vars,
                 store_vars, dots_vars, rerun_vars, main_vars, more_vars>>

RoundNext == RoundOne

\* the rounding of one count alone
InitRound ==
  RoundInit /\ Stage1Idle /\ BuildIdle /\ StoreIdle /\ DotsIdle /\ RerunInit
    /\ MainIdle /\ MoreIdle

SpecRound ==
  /\ InitRound
  /\ [][RoundNext]_vars

\* one call of random_point_in_polygon alone
InitSample ==
  SampleInit /\ Stage1Idle /\ BuildIdle /\ StoreIdle /\ DotsIdle /\ RerunInit
    /\ MainIdle /\ RoundIdle /\ MongoIdle /\ CliIdle

\* calls of upload_assignments alone
InitMongo ==
  MongoInit /\ Stage1Idle /\ BuildIdle /\ StoreIdle /\ DotsIdle /\ RerunInit
    /\ MainIdle /\ RoundIdle /\ SampleIdle /\ CliIdle

SpecMongo ==
  /\ InitMongo
  /\ [][MongoNext]_vars

\* a run of run_all_stages alone
InitCli ==
  CliInit /\ Stage1Idle /\ BuildIdle /\ StoreIdle /\ DotsIdle /\ RerunInit
    /\ MainIdle /\ RoundIdle /\ SampleIdle /\ MongoIdle

SpecCli ==
  /\ InitCli
  /\ [][CliNext]_vars

SpecSample ==
  /\ InitSample
  /\ [][SampleNext]_vars

\* main of Stage 1 alone
InitMain ==
  MainInit /\ Stage1Idle /\ BuildIdle /\ StoreIdle /\ DotsIdle /\ RerunInit /\ RoundIdle
    /\ MoreIdle

SpecMain ==
  /\ InitMain
  /\ [][MainNext]_vars

\* two calls of aggregate_bg_to_precincts as main makes them: both layers
\* are in the working CRS
InitStage1Twice ==
  /\ Stage1Init /\ bg_crs = WORK_CRS
  /\ BuildIdle /\ StoreIdle /\ DotsIdle /\ RerunInit /\ MainIdle /\ RoundIdle
    /\ MoreIdle

Stage1TwiceNext == AggregateBgToPrecincts \/ AggregateAgain

SpecStage1Twice ==
  /\ InitStage1Twice
  /\ [][Stage1TwiceNext]_vars

\* a run of Stage 3 alone
InitDots ==
  DotsInit /\ Stage1Idle /\ BuildIdle /\ StoreIdle /\ RerunInit /\ MainIdle /\ RoundIdle
    /\ MoreIdle

SpecDots ==
  /\ InitDots
  /\ [][DotsNext]_vars

DotsTwiceNext == DotsNext \/ RunAgain

\* two runs of Stage 3 on the same block groups in two orders
InitPermuted ==
  PermutedInit /\ Stage1Idle /\ BuildIdle /\ StoreIdle /\ RerunInit /\ MainIdle
    /\ RoundIdle
    /\ MoreIdle

PermutedNext == DotsNext \/ RunPermuted

SpecPermuted ==
  /\ InitPermuted
  /\ [][PermutedNext]_vars

\* a run of Stage 3 on a layer in which category counts are missing
InitMissing ==
  MissingInit /\ Stage1Idle /\ BuildIdle /\ StoreIdle /\ RerunInit /\ MainIdle
    /\ RoundIdle
    /\ MoreIdle

SpecMissing ==
  /\ InitMissing
  /\ [][DotsNext]_vars

SpecDotsTwice ==
  /\ InitDots
  /\ [][DotsTwiceNext]_vars

\* a call of aggregate_bg_to_precincts alone
InitStage1 ==
  Stage1Init /\ BuildIdle /\ StoreIdle /\ DotsIdle /\ RerunInit /\ MainIdle /\ RoundIdle
    /\ MoreIdle

SpecStage1 ==
  /\ InitStage1
  /\ [][Stage1Next]_vars

BuildNext == BuildAssignments

\* a call of build_assignments_for_plan alone
InitAssign ==
  BuildInit /\ Stage1Idle /\ StoreIdle /\ DotsIdle /\ RerunInit /\ MainIdle /\ RoundIdle
    /\ MoreIdle

SpecAssign ==
  /\ InitAssign
  /\ [][BuildNext]_vars

StoreNext ==
  \/ Stage2Start
  \/ Stage2NoPlanFiles
  \/ ProcessChamber
  \/ ProcessChamberFails
  \/ Stage2NoPlans
  \/ Stage2Save

\* runs of Stage 2 alone
InitStore ==
  StoreInit /\ Stage1Idle /\ DotsIdle /\ RerunInit /\ MainIdle /\ RoundIdle
    /\ MoreIdle

SpecStore ==
  /\ InitStore
  /\ [][StoreNext]_vars

\* ------------------------------------------------------- Stage 1 properties
Val0(x) == IF x = NaN THEN 0 ELSE x

RECURSIVE AreaProduct(_)
\* common denominator of the weights area(S /\ T) / area(S)
AreaProduct(S) ==
  IF S = {} THEN 1
  ELSE LET s == CHOOSE x \in S : TRUE
       IN (IF Area(bg[s].geometry) = 0 THEN 1 ELSE Area(bg[s].geometry))
            * AreaProduct(S \ {s})

\* AreaProduct * (sum over sources S of weight(S,T) * value(S))
WeightedShare(t) ==
  LET den == AreaProduct(DOMAIN bg)
  IN SetSum([s \in DOMAIN bg |->
               IF Area(bg[s].geometry) = 0 THEN 0
               ELSE Overlap(bg[s], precincts[t]) * bg[s].value
                      * (den \div Area(bg[s].geometry))],
            DOMAIN bg)

TargetsDisjoint ==
  \A t, u \in DOMAIN precincts :
    t # u => precincts[t].geometry \cap precincts[u].geometry = {}

\* C1: every target's value is the sum over the sources of
\* (area(S /\ T) / area(S)) * value(S): a source lying 60% in X and 40% in Y
\* gives 60% of its value to X and 40% to Y.
C1_ProportionalApportionment ==
  (stage1_pc = "done" /\ TargetsDisjoint) =>
    \A t \in DOMAIN precincts :
      Val0(agg_value[t]) * AreaProduct(DOMAIN bg) = WeightedShare(t)

\* every source polygon has positive area and lies within the union of the
\* target polygons
EverySourceCovered ==
  \A s \in DOMAIN bg :
    /\ bg[s].geometry # {}
    /\ bg[s].geometry \subseteq UNION {precincts[t].geometry : t \in DOMAIN precincts}

SourceTotal == SetSum([s \in DOMAIN bg |-> bg[s].value], DOMAIN bg)

\* C2: conservation - when every source polygon is fully covered by the
\* targets, the sum of the values over the targets equals the sum over the
\* sources, and the reconciliation reports a difference of 0.
C2_Conservation ==
  (stage1_pc = "done" /\ EverySourceCovered) =>
    /\ SumSkipNaN(agg_value) = SourceTotal
    /\ comparison.Target_Precinct = comparison.Source_BG
    /\ comparison.Difference = 0

\* a covered layer in which a source with a positive value straddles two
\* targets without being inside either, and has been apportioned
C2_Witness ==
  /\ stage1_pc = "done"
  /\ EverySourceCovered
  /\ \E s \in DOMAIN bg :
       /\ bg[s].value > 0
       /\ \A t \in DOMAIN precincts : ~(bg[s].geometry \subseteq precincts[t].geometry)
       /\ Cardinality({t \in DOMAIN precincts : Overlap(bg[s], precincts[t]) > 0}) >= 2

\* C10 (as claimed): with source and target in different coordinate reference
\* systems apportionment fails fast and produces no redistributed value.
C10_MismatchFailsFast ==
  bg_crs # precincts_crs =>
    /\ stage1_pc # "done"
    /\ \A t \in DOMAIN agg_value : agg_value[t] = NaN

\* C10 (amended): layers in different coordinate reference systems do not make
\* apportionment fail: both are reprojected to the working CRS and the values
\* are produced in it; the call fails, with no value produced, only when a
\* layer carries no CRS at all.
C10_ReprojectsAndProceeds ==
  /\ stage1_pc = "done" =>
       /\ bg_crs # NoCRS /\ precincts_crs # NoCRS
       /\ out_crs = WORK_CRS
  /\ stage1_pc = "error" =>
       /\ bg_crs = NoCRS \/ precincts_crs = NoCRS
       /\ \A t \in DOMAIN agg_value : agg_value[t] = NaN
       /\ comparison = NoTable

\* layers in two different CRSs were apportioned and a value was redistributed
C10_Witness ==
  /\ stage1_pc = "done"
  /\ bg_crs # precincts_crs
  /\ \E t \in DOMAIN agg_value : agg_value[t] # NaN /\ agg_value[t] > 0

\* ------------------------------------------------------- Stage 2 properties
RecordsOf(row) ==
  {i \in 1..Len(assignments) :
     assignments[i].precinct_id = s2_precincts[row].UNIQUE_ID}

IsNumericCode(code) == code # NoCode /\ ParsesAsInt(code)
IsReservedCode(code) == code # NoCode /\ ~ParsesAsInt(code)

\* the integers a district id can be: those the numeric codes spell, 0 and -1
IntegerIds == {IntOf(c) : c \in {x \in DistrictCodes : IsNumericCode(x)}} \cup {0, 0 - 1}

\* C8 (as claimed): a precinct whose district carries a reserved non-numeric
\* code gets a record whose label is no integer district id (not 0, not -1).
C8_ReservedCodePreserved ==
  build_pc = "done" =>
    \A row \in DOMAIN s2_precincts :
      IsReservedCode(DistrictCodeOf(s2_precincts, districts, row)) =>
        /\ RecordsOf(row) # {}
        /\ \A i \in RecordsOf(row) : assignments[i].district_id \notin IntegerIds

\* C8 (amended): a precinct whose district carries a reserved non-numeric
\* code gets one record, whose district_id is the integer -1: it differs
\* from the id of every district whose code is a number >= 0 and from an
\* unassigned precinct (which has no record), but the code itself is not
\* kept and -1 is also the id of a district whose code spells -1.
C8_ReservedCodeIsMinusOne ==
  build_pc = "done" =>
    \A row \in DOMAIN s2_precincts :
      LET code == DistrictCodeOf(s2_precincts, districts, row)
      IN /\ IsReservedCode(code) =>
              /\ Cardinality(RecordsOf(row)) = 1
              /\ \A i \in RecordsOf(row) : assignments[i].district_id = 0 - 1
         /\ (IsNumericCode(code) /\ IntOf(code) >= 0) =>
              \A i \in RecordsOf(row) :
                assignments[i].district_id = IntOf(code) /\ assignments[i].district_id >= 0

\* one precinct lies in a district with the reserved code and another in a
\* district with a numeric code, and both have their record
C8_Witness ==
  /\ build_pc = "done"
  /\ \E row \in DOMAIN s2_precincts :
       /\ DistrictCodeOf(s2_precincts, districts, row) = "ZZZ"
       /\ RecordsOf(row) # {}
  /\ \E row \in DOMAIN s2_precincts :
       /\ DistrictCodeOf(s2_precincts, districts, row) = "1"
       /\ RecordsOf(row) # {}

\* ------------------------------------------------- Stage 2 store properties
PlanIdsOf(plans) == {plans[i].plan_id : i \in DOMAIN plans}

\* C7: after any sequence of Stage 2 runs, for every plan of the most recent
\* saved run the store holds exactly the records of that run (none of an
\* earlier run survives), and no precinct has two records for one plan_id.
C7_RecordsSuperseded ==
  (stage2_pc = "idle" /\ all_plans # <<>>) =>
    /\ SelectSeq(assignments_json, LAMBDA a : a.plan_id \in PlanIdsOf(all_plans))
         = all_assignments
    /\ \A i, j \in DOMAIN assignments_json :
         (i # j /\ assignments_json[i].plan_id = assignments_json[j].plan_id)
           => assignments_json[i].precinct_id # assignments_json[j].precinct_id

\* ------------------------------------------------------- Stage 3 properties
\* C4 (as claimed): two runs with the same seed on the same input emit the
\* same list of dots - same coordinates, same categories, same order.
C4_SameSeedSameDots ==
  (dot_runs = 2 /\ dots_pc = "done") => feats = prev_feats

\* the largest count of row i over the categories of dots_by_group, 0 when
\* there is none
MaxCountOf(i) ==
  SetMax({0} \cup {dot_bg[i].counts[g] : g \in bg_columns})

\* row i has exactly one dot after the step, in a category holding the
\* largest count
OneDotInMaxCategory(i) ==
  \E g \in DOMAIN dots_by_group :
    /\ dot_bg[i].counts[g] = MaxCountOf(i)
    /\ dots_by_group'[g][i] = 1
    /\ \A h \in DOMAIN dots_by_group : h # g => dots_by_group'[h][i] = 0

RowUnchanged(i) ==
  \A g \in DOMAIN dots_by_group : dots_by_group'[g][i] = dots_by_group[g][i]

RoundedTotal(i) ==
  TotalDots(ComputeDotsForGroups(dot_bg, dot_unit, bg_columns, seed).dots, i)

DotsOf(i) == {j \in DOMAIN feats : feats[j].bg_geoid = i}

C9_NonPositiveUnitRejected ==
  dot_unit <= 0 =>
    /\ DOMAIN dots_by_group = {}
    /\ feats = <<>>
    /\ dots_file = NoFile

\* ------------------------------------------- Stage 1 properties, continued
\* source s lies entirely outside every target polygon
Outside(s) == \A t \in DOMAIN precincts : Overlap(bg[s], precincts[t]) = 0

OutsideTotal ==
  SetSum([s \in DOMAIN bg |-> bg[s].value], {s \in DOMAIN bg : Outside(s)})

\* C11: a source polygon entirely outside every target does not abort the
\* call and is given to no target; its value is in no target's value and not
\* in the reconciliation's target total, and the reconciliation's difference
\* (target total - source total) is minus the sum over such sources.
C11_OutsideSourcesUnapportioned ==
  /\ stage1_pc = "error" => (bg_crs = NoCRS \/ precincts_crs = NoCRS)
  /\ stage1_pc = "done" =>
       /\ \A s \in DOMAIN bg : Outside(s) <=> assignment[s] = NaN
       /\ SumSkipNaN(agg_value) = SourceTotal - OutsideTotal
       /\ comparison.Target_Precinct = SourceTotal - OutsideTotal
       /\ comparison.Difference = 0 - OutsideTotal

\* a call has returned for a layer in which one source of positive area and
\* positive value lies outside every target and another source, of positive
\* value too, was given to a target
C11_Witness ==
  /\ stage1_pc = "done"
  /\ \E s, r \in DOMAIN bg :
       /\ Outside(s) /\ bg[s].geometry # {} /\ bg[s].value > 0
       /\ assignment[r] # NaN /\ bg[r].value > 0
  /\ comparison.Difference < 0

\* area of source s inside the union of the targets
CoveredArea(s) ==
  Area(bg[s].geometry \cap UNION {precincts[t].geometry : t \in DOMAIN precincts})

\* C12: the weights of a source are never rescaled: when only a fraction f of
\* a source's area is covered by the targets, the targets together receive f
\* times its value - the sum of the target values is the sum over the sources
\* of (covered area / area) * value.
C12_NeverRescaled ==
  stage1_pc = "done" =>
    SumSkipNaN(agg_value) * AreaProduct(DOMAIN bg) =
      SetSum([s \in DOMAIN bg |->
                IF Area(bg[s].geometry) = 0 THEN 0
                ELSE CoveredArea(s) * bg[s].value
                       * (AreaProduct(DOMAIN bg) \div Area(bg[s].geometry))],
             DOMAIN bg)

\* --------------------------------------------- Stage 1 main, the properties
\* no block group is given to precinct t
NoSourceFor(t) ==
  \A s \in DOMAIN main_bg : MaupAssign(main_bg, main_precincts)[s] # t

\* C13 (as claimed): a target that no source is apportioned to has the value
\* 0, not a missing value, for every attribute in the layer
\* aggregate_bg_to_precincts returns and in the final precinct output.
C13_ZeroNotNull ==
  main_pc \in {"aggregated", "saved"} =>
    \A t \in DOMAIN main_precincts : NoSourceFor(t) =>
      \A c \in numeric_cols :
        /\ precinct_table[t][c] = 0
        /\ main_pc = "saved" => precinct_out[t][c] = 0

\* C13 (amended): a target that no source is apportioned to has a missing
\* value (NaN), not 0, for every attribute in the layer
\* aggregate_bg_to_precincts returns; main replaces it by 0, so the value is 0
\* in the final precinct output, which holds no missing value at all.
C13_NullThenZero ==
  /\ main_pc \in {"aggregated", "saved"} =>
       \A t \in DOMAIN main_precincts : NoSourceFor(t) =>
         \A c \in numeric_cols : precinct_table[t][c] = NaN
  /\ main_pc = "saved" =>
       \A t \in DOMAIN main_precincts : \A c \in numeric_cols :
         /\ precinct_out[t][c] # NaN
         /\ NoSourceFor(t) => precinct_out[t][c] = 0

\* the precinct layer was saved with one precinct that no block group was
\* given to and one that received a positive count
C13_Witness ==
  /\ main_pc = "saved"
  /\ \E t, u \in DOMAIN main_precincts :
       /\ NoSourceFor(t)
       /\ ~NoSourceFor(u)
       /\ precinct_out[u][HSP_POP] > 0

\* C14: on every output precinct each derived column is the sum of its
\* component columns (NHSP_POP of the non-Hispanic race counts, TOT_POP =
\* HSP_POP + NHSP_POP, TOT_HOUS of the income brackets), also when a component
\* is missing on a block group, and after the final rounding.
C14_DerivedTotalsConsistent ==
  main_pc = "saved" =>
    \A t \in DOMAIN precinct_out :
      /\ precinct_out[t][NHSP_POP] =
           SetSum(precinct_out[t], SeqSet(NhspComponents))
      /\ precinct_out[t][TOT_POP] =
           precinct_out[t][HSP_POP] + precinct_out[t][NHSP_POP]
      /\ precinct_out[t][TOT_HOUS] = SetSum(precinct_out[t], SeqSet(income_cols))

MaxOverlap(row, d) ==
  /\ Overlap(s2_precincts[row], districts[d]) > 0
  /\ \A e \in DOMAIN districts :
       Overlap(s2_precincts[row], districts[e]) <= Overlap(s2_precincts[row], districts[d])

\* C16: for every precinct that intersects a district, the label assigned is
\* the label of a district whose overlap with the precinct is maximal among
\* all districts: the code mapped to the precinct is that district's code and
\* the precinct's record carries the id of that code; a smaller overlap with
\* another district never decides the label.
C16_LabelOfMaxOverlap ==
  build_pc = "done" =>
    \A row \in DOMAIN s2_precincts :
      (\E d \in DOMAIN districts : Overlap(s2_precincts[row], districts[d]) > 0) =>
        \E d \in DOMAIN districts :
          /\ MaxOverlap(row, d)
          /\ DistrictCodeOf(s2_precincts, districts, row) = districts[d].DISTRICT
          /\ \A i \in RecordsOf(row) :
               assignments[i].district_id = DistrictId(districts[d].DISTRICT)
          /\ districts[d].DISTRICT # NoCode => RecordsOf(row) # {}

\* a precinct lies 60% in one district and 40% in another, the two carry
\* different numeric codes, the smaller one comes first in the layer, and the
\* precinct's record has the id of the larger one
C16_Witness ==
  /\ build_pc = "done"
  /\ \E row \in DOMAIN s2_precincts : \E d, e \in DOMAIN districts :
       /\ e < d
       /\ MaxOverlap(row, d)
       /\ Overlap(s2_precincts[row], districts[e]) > 0
       /\ Overlap(s2_precincts[row], districts[e]) < Overlap(s2_precincts[row], districts[d])
       /\ IsNumericCode(districts[d].DISTRICT) /\ IsNumericCode(districts[e].DISTRICT)
       /\ districts[d].DISTRICT # districts[e].DISTRICT
       /\ \E i \in RecordsOf(row) :
            assignments[i].district_id = IntOf(districts[d].DISTRICT)

OverlapsSomeDistrict(row) ==
  \E d \in DOMAIN districts : Overlap(s2_precincts[row], districts[d]) > 0

\* C18 (as claimed): the unassigned count plus the number of records is the
\* number of precincts, and every precinct that overlaps a district has its
\* record.
C18_CountedAndOthersKept ==
  build_pc = "done" =>
    /\ n_unassigned + Len(assignments) = Len(s2_precincts)
    /\ \A row \in DOMAIN s2_precincts : OverlapsSomeDistrict(row) => RecordsOf(row) # {}

\* C18 (amended): a precinct without a district label never raises, it is
\* counted: the unassigned count plus the number of records is the number
\* of precincts; a precinct that overlaps no district, or whose district
\* carries no label, has no record and is counted as unassigned, and every
\* precinct whose district carries a label has its record whatever the
\* other precincts are.
C18_CountedAndLabelledKept ==
  build_pc = "done" =>
    /\ n_unassigned + Len(assignments) = Len(s2_precincts)
    /\ n_unassigned =
         Cardinality({row \in DOMAIN s2_precincts :
                        \/ ~OverlapsSomeDistrict(row)
                        \/ DistrictCodeOf(s2_precincts, districts, row) = NoCode})
    /\ \A row \in DOMAIN s2_precincts :
         IF OverlapsSomeDistrict(row)
              /\ DistrictCodeOf(s2_precincts, districts, row) # NoCode
           THEN RecordsOf(row) # {}
           ELSE RecordsOf(row) = {}

\* a plan was assigned in which a precinct overlaps no district and is
\* counted, and another precinct has its record
C18_Witness ==
  /\ build_pc = "done"
  /\ n_unassigned > 0
  /\ Len(assignments) > 0
  /\ \E row \in DOMAIN s2_precincts : ~OverlapsSomeDistrict(row)

\* ------------------------------------ Stage 2 store properties, continued
FailedPlanIds ==
  {PlanId(run_state, ChamberCode(k), plan_year) : k \in failed_chambers}

\* C17 (as claimed): when a plan's district layer has no usable label column
\* the run is aborted and writes nothing: the run that met such a plan
\* leaves the plan store and the assignment store as they were.
C17_FailureAbortsRun ==
  [][(failed_chambers # {} /\ stage2_pc = "chambers" /\ stage2_pc' = "idle") =>
       (plans_json' = plans_json /\ assignments_json' = assignments_json)]_vars

\* C17 (amended): when a plan's district layer has no usable label column,
\* load_plan raises, main prints a warning for that chamber and goes on with
\* the other chambers; no plan or assignment record of the failed plan is
\* written, the plans and records of the chambers that succeeded are, and
\* the run writes nothing only when no chamber succeeded.
C17_FailedPlanSkipped ==
  [][/\ failed_chambers' # failed_chambers /\ stage2_pc = "chambers" =>
          /\ all_plans' = all_plans
          /\ all_assignments' = all_assignments
          /\ plans_json' = plans_json
          /\ assignments_json' = assignments_json
          /\ stage2_pc' = "chambers"
     /\ (stage2_pc = "chambers" /\ stage2_pc' = "idle") =>
          /\ \A e \in SeqSet(plans_json') :
               e.plan_id \in FailedPlanIds => e \in SeqSet(plans_json)
          /\ \A e \in SeqSet(assignments_json') :
               e.plan_id \in FailedPlanIds => e \in SeqSet(assignments_json)
          /\ all_plans = <<>> =>
               (plans_json' = plans_json /\ assignments_json' = assignments_json)
          /\ all_plans # <<>> =>
               /\ SeqSet(all_plans) \subseteq SeqSet(plans_json')
               /\ SeqSet(all_assignments) \subseteq SeqSet(assignments_json')]_vars

\* a run in which one chamber failed and another succeeded has saved the
\* plan and the records of the one that succeeded
C17_Witness ==
  /\ stage2_pc = "idle"
  /\ failed_chambers # {}
  /\ all_plans # <<>>
  /\ all_assignments # <<>>
  /\ SeqSet(all_plans) \subseteq SeqSet(plans_json)
  /\ SeqSet(all_assignments) \subseteq SeqSet(assignments_json)

\* ------------------------------------------------ the rounding, properties
\* C19: for a count >= 0 and a unit > 0 the rounded dot count is
\* floor(count/unit) + 1 when the draw is < frac = count/unit -
\* floor(count/unit) and floor(count/unit) otherwise; so it is one of the
\* two, and exactly count/unit when count is a multiple of unit.
C19_FloorPlusBernoulli ==
  round_pc = "done" =>
    LET base == round_count \div round_unit
        rest == round_count % round_unit          \* frac = rest / unit
        drawn_below == round_u * round_unit < rest * RngM
    IN /\ round_dots = IF drawn_below THEN base + 1 ELSE base
       /\ round_dots \in {base, base + 1}
       /\ rest = 0 => round_dots * round_unit = round_count

\* a count that is no multiple of the unit was rounded up by a draw below
\* frac
C19_Witness ==
  /\ round_pc = "done"
  /\ round_count % round_unit # 0
  /\ round_count > round_unit
  /\ round_dots = (round_count \div round_unit) + 1

\* the draws, each as likely as any other
Draws == 0..(RngM - 1)

\* C20: the mean of the rounded dot count over the draw is count/unit
\* exactly, and the share of the draws that give the extra dot is frac.
C20_ExpectationPreserved ==
  round_pc = "done" =>
    LET dots_of == [u \in Draws |-> RoundedDots(round_count, round_unit, u)]
        extra == {u \in Draws : dots_of[u] = (round_count \div round_unit) + 1}
    IN /\ round_dots = dots_of[round_u]
       /\ SetSum(dots_of, Draws) * round_unit = round_count * Cardinality(Draws)
       /\ Cardinality(extra) * round_unit
            = (round_count % round_unit) * Cardinality(Draws)

\* a count with frac = 3/4 was rounded
C20_Witness ==
  /\ round_pc = "done"
  /\ round_unit = 4
  /\ round_count % round_unit = 3
  /\ round_dots = round_count \div round_unit

\* ----------------------------------------- the sampling of one point, properties
\* the point the j-th attempt of the call draws
AttemptPoint(j) ==
  LET b == Bounds(sample_poly)
  IN [x |-> Uniform(b.minx, b.maxx, PyDraw(sample_seed, sample_k + 2 * j - 1)),
      y |-> Uniform(b.miny, b.maxy, PyDraw(sample_seed, sample_k + 2 * j))]

\* the attempts the call made: each draws two numbers
AttemptsMade == (sample_out.draws - sample_k) \div 2

\* C22: random_point_in_polygon always terminates: it makes at most
\* MaxAttempts (2000) rejection-sampling attempts; a point it returns from an
\* accepted attempt lies inside the polygon, and when no attempt is accepted
\* it returns the polygon's representative point.
C22_BoundedAttemptsThenFallback ==
  sample_pc = "done" =>
    /\ sample_out.draws = sample_k + 2 * AttemptsMade
    /\ AttemptsMade \in 0..MaxAttempts
    /\ \/ /\ AttemptsMade >= 1
          /\ sample_out.point = AttemptPoint(AttemptsMade)
          /\ Contains(sample_poly, sample_out.point)
       \/ /\ AttemptsMade \in {0, MaxAttempts}
          /\ \A j \in 1..AttemptsMade : ~Contains(sample_poly, AttemptPoint(j))
          /\ sample_out.point = RepresentativePoint(sample_poly)

\* a call on a part whose bounding box has an area has used up all its
\* attempts and returned the representative point
C22_Witness ==
  /\ sample_pc = "done"
  /\ Bounds(sample_poly).maxx > Bounds(sample_poly).minx
  /\ Bounds(sample_poly).maxy > Bounds(sample_poly).miny
  /\ AttemptsMade = MaxAttempts
  /\ sample_out.point = RepresentativePoint(sample_poly)

\* C24: for a part whose bounding box has zero (or negative) width or height
\* random_point_in_polygon makes no attempt and draws no number from rng; it
\* returns the representative point at once.
C24_DegenerateBoxSkipsSampling ==
  LET b == Bounds(sample_poly)
  IN (sample_pc = "done" /\ (b.maxx <= b.minx \/ b.maxy <= b.miny)) =>
       /\ sample_out.draws = sample_k
       /\ sample_out.point = RepresentativePoint(sample_poly)

\* a call on a part of zero height and positive width has returned after
\* numbers had been drawn from rng before it
C24_Witness ==
  /\ sample_pc = "done"
  /\ Bounds(sample_poly).maxy <= Bounds(sample_poly).miny
  /\ Bounds(sample_poly).maxx > Bounds(sample_poly).minx
  /\ sample_k > 0
  /\ sample_out.draws = sample_k

\* ------------------------------------------- Stage 3 properties, continued
\* the category is missing from polygon i: its column is not in the layer or
\* its value is null there
IsMissing(g, i) == g \notin bg_columns \/ dot_bg[i].counts[g] = NaN

\* the layer with every missing count written as 0
ZeroFilled ==
  [i \in DOMAIN dot_bg |->
     [dot_bg[i] EXCEPT !.counts = [g \in Groups |->
        IF IsMissing(g, i) THEN 0 ELSE dot_bg[i].counts[g]]]]

\* C21: a category missing from a polygon's attributes (column absent, or
\* value null) is treated as count 0: it yields 0 rounded dots for the
\* polygon, and the dots of the other categories are those computed when the
\* missing count is written as 0.
C21_MissingTreatedAsZero ==
  dots_pc = "rounded" =>
    LET zero == ComputeDotsForGroups(ZeroFilled, dot_unit, Groups, seed).dots
    IN \A i \in DOMAIN dot_bg : \A g \in Groups :
         IF IsMissing(g, i)
           THEN g \in DOMAIN dots_by_group => dots_by_group[g][i] = 0
           ELSE dots_by_group[g][i] = zero[g][i]

\* the places of the dots a list holds for one polygon and one category
PlacesOf(fs, id, g) ==
  {fs[j].geometry : j \in {k \in DOMAIN fs : fs[k].bg_geoid = id /\ fs[k].group = g}}

\* the number of dots a list holds for one polygon and one category
NumberOf(fs, id, g) ==
  Cardinality({k \in DOMAIN fs : fs[k].bg_geoid = id /\ fs[k].group = g})

\* C23: the dot set is independent of input order: for a fixed seed the dot
\* counts and dot places of each polygon identifier and category are the same
\* when the rows of the layer are read in another order.
C23_OrderIndependent ==
  (dot_runs = 2 /\ dots_pc = "done") =>
    \A i \in DOMAIN dot_bg : \A g \in Groups :
      /\ NumberOf(feats, dot_bg[i].GEOID, g) = NumberOf(prev_feats, dot_bg[i].GEOID, g)
      /\ PlacesOf(feats, dot_bg[i].GEOID, g) = PlacesOf(prev_feats, dot_bg[i].GEOID, g)

\* the dot count of a pair after rounding and the presence pass
CountOf(i, g) == IF g \in DOMAIN dots_by_group THEN dots_by_group[g][i] ELSE 0

C26_PresenceChangesNothingElse ==
  [][(dots_pc = "rounded" /\ dots_pc' = "present") =>
       \A i \in DOMAIN dot_bg :
         /\ TotPop[i] = 0 => RowUnchanged(i)
         /\ TotalDots(dots_by_group, i) >= 1 => RowUnchanged(i)
         /\ \A g \in DOMAIN dots_by_group :
              dots_by_group'[g][i] >= dots_by_group[g][i]
         /\ TotalDots(dots_by_group', i) <= TotalDots(dots_by_group, i) + 1]_vars

\* the presence pass has gone over a polygon of total population 0 that
\* holds a positive category count and that rounding left without a dot, and
\* has left it so
C26_Witness ==
  /\ dots_pc = "present"
  /\ \E i \in DOMAIN dot_bg :
       /\ TotPop[i] = 0
       /\ MaxCountOf(i) > 0
       /\ RoundedTotal(i) = 0
       /\ TotalDots(dots_by_group, i) = 0

\* ------------------------------------ Stage 2 store properties, continued
\* C28: referential integrity of the central stores: after any sequence of
\* Stage 2 runs, runs in which a chamber fails included, every record of
\* assignments.json has a plan_id that plans.json holds.
C28_AssignmentsReferToPlans ==
  stage2_pc = "idle" =>
    \A a \in SeqSet(assignments_json) : a.plan_id \in PlanIdsOf(plans_json)

\* C29: a Stage 2 run in which no plan is processed (every chamber raises)
\* writes nothing: as long as the run's list of plans is empty, its end
\* included, plans.json and assignments.json stay as they were.
C29_NoPlanNoWrite ==
  [][all_plans' = <<>> =>
       (plans_json' = plans_json /\ assignments_json' = assignments_json)]_vars

\* a second run for the same state and year, all of whose chambers failed,
\* has ended and the plans the first run stored are still there
C29_Witness ==
  /\ stage2_pc = "idle"
  /\ runs = 2
  /\ failed_chambers # {}
  /\ all_plans = <<>>
  /\ \E e \in SeqSet(plans_json) : e.state = run_state /\ e.year = plan_year
  /\ assignments_json # <<>>

\* -------------------------------------------- upload_assignments, properties
\* the call that last upserted a record with the key of the document
LastCallWith(doc) ==
  SetMax({c \in DOMAIN uploaded :
            \E j \in DOMAIN uploaded[c] : MatchesKey(doc, uploaded[c][j])})

\* the last record of a list with the key of the document
LastRecordWith(doc, list) ==
  list[SetMax({j \in DOMAIN list : MatchesKey(doc, list[j])})]

\* C27: upload_assignments keeps the collection keyed by (plan_id,
\* precinct_id): after any sequence of uploads from an empty collection it
\* holds at most one document per key, that document is the last record with
\* the key in the upload that last carried the key, also when one file holds
\* several records with one key, and every uploaded key has its document.
C27_OneDocumentPerKey ==
  /\ \A i, j \in DOMAIN mongo_assignments :
       MatchesKey(mongo_assignments[i], mongo_assignments[j]) => i = j
  /\ \A i \in DOMAIN mongo_assignments :
       mongo_assignments[i] =
         LastRecordWith(mongo_assignments[i], uploaded[LastCallWith(mongo_assignments[i])])
  /\ \A c \in DOMAIN uploaded : \A j \in DOMAIN uploaded[c] :
       \E i \in DOMAIN mongo_assignments :
         MatchesKey(mongo_assignments[i], uploaded[c][j])

\* two uploads have been made, the second of a file that holds two different
\* records with one key, which an earlier upload had stored already
C27_Witness ==
  /\ Len(uploaded) = 2
  /\ Len(uploaded[2]) = 2
  /\ uploaded[2][1] # uploaded[2][2]
  /\ MatchesKey(uploaded[2][1], uploaded[2][2])
  /\ \E j \in DOMAIN uploaded[1] : MatchesKey(uploaded[1][j], uploaded[2][1])
  /\ Len(mongo_assignments) = 1

\* ------------------------------------------------ run_all_stages, properties
\* C30: every option run_all_stages forwards to a stage script is defined by
\* that stage's parser and carries a valid integer value: no year option is
\* forwarded when --acs-year / --census-year are not given, and --plan-year
\* goes only to the stages whose parser defines it.
C30_ForwardedOptionsAccepted ==
  /\ ParseArgsAccepts(stage_num, stage_args)
  /\ cli_args.acs_year = NoYear =>
       \A j \in DOMAIN stage_args : stage_args[j][1] # "--acs-year"
  /\ cli_args.census_year = NoYear =>
       \A j \in DOMAIN stage_args : stage_args[j][1] # "--census-year"
====
